---- MODULE Spec2Model ----
(***************************************************************************)
(* Caribon: repetition detector.  Model of src/src/parser.rs:              *)
(*   - the construction of a Parser (new and the with_ builders),          *)
(*   - the tokenizer (tokenize and its four sub-scanners),                 *)
(*   - the fuzzy key resolver (fuzzy_get),                                 *)
(*   - the local detector (detect_local, with try_remove),                 *)
(*   - the global detector (words_stats, detect_global),                   *)
(*   - the highlighter (highlight, value_to_colour).                       *)
(*                                                                         *)
(* Conventions.                                                            *)
(*   A string is a sequence of one-character strings.                      *)
(*   Vectors are sequences; a Rust index k is the TLA+ index k + 1, and    *)
(*   an Option<usize> is 0 for None and the TLA+ index otherwise.          *)
(*   An f32 score is an exact fraction <<num, den>>; a threshold is an     *)
(*   integer number of tenths (19 is 1.9) and a fuzzy tolerance an         *)
(*   integer number of quarters (2 is 0.5, 0 is None).  Every comparison   *)
(*   is done by cross-multiplication; for the values the bounds allow no   *)
(*   two distinct operands are closer than f32 rounding.                   *)
(***************************************************************************)
EXTENDS Integers, Sequences, FiniteSets, TLC

VARIABLES
    lang,           \* the argument of Parser::new
    message,        \* the Error Parser::new returned, if any
    html,           \* Parser.html
    ignore_proper,  \* Parser.ignore_proper
    max_distance,   \* Parser.max_distance
    fuzzy,          \* Parser.fuzzy, in quarters; 0 is None
    ignored,        \* Parser.ignored
    more,           \* history: number of calls of with_more_ignored
    text,           \* the argument of tokenize
    chars,          \* tokenize: the rest of the input (the scan cursor)
    words,          \* Ast.words
    begin_head,     \* Ast.begin_head
    begin_body,     \* Ast.begin_body
    end_body,       \* Ast.end_body
    is_begin,       \* tokenize: is_sentence_beginning
    in_body,        \* tokenize: in_body
    pc,             \* where the program is
    h,              \* detect_local: the running map; fuzzy_get: its map argument
    pos,            \* detect_local: pos
    pos_to_i,       \* detect_local: pos_to_i
    idx,            \* detect_local: the loop index i (next token to visit)
    threshold,      \* the threshold argument of the running detector, in tenths
    passes,         \* number of detector passes started on the document
    detector,       \* the detector running, or the last one that ran
    runs,           \* history: every run detect_local has built in this pass
    pattern,        \* fuzzy_get: its pattern argument
    result          \* fuzzy_get: the value returned

vars == <<lang, message, html, ignore_proper, max_distance, fuzzy, ignored,
          more, text, chars, words,
          begin_head, begin_body, end_body, is_begin, in_body, pc, h, pos,
          pos_to_i, idx, threshold, passes, detector, runs, pattern,
          result>>

(***************************************************************************)
(* Bounds of the model.                                                    *)
(***************************************************************************)
MaxLen == 4        \* longest input of the tokenizer specification, in characters
MaxWords == 4      \* longest input of the detector specification, in words
MaxPasses == 2     \* detector passes on one document
MaxKeys == 3       \* largest key set handed to fuzzy_get on its own
MaxMore == 1       \* calls of with_more_ignored on one parser
MaxRenders == 1    \* calls of ast_to_html that insert the scripts

(***************************************************************************)
(* Characters.                                                             *)
(***************************************************************************)
LowerOf == [A |-> "a", B |-> "b", C |-> "c", H |-> "h", L |-> "l"]

Uppercase == DOMAIN LowerOf

Lowercase ==
    {"a", "b", "c", "d", "e", "f", "g", "h", "i", "j", "k", "l", "m", "n",
     "o", "p", "q", "r", "s", "t", "u", "v", "w", "x", "y", "z", "à"}

is_alphabetic(c) == c \in Lowercase \cup Uppercase

is_uppercase(c) == c \in Uppercase

to_lowercase(c) == IF c \in Uppercase THEN LowerOf[c] ELSE c

lower(s) == [k \in 1..Len(s) |-> to_lowercase(s[k])]

RECURSIVE Concat(_)
Concat(ss) == IF ss = <<>> THEN <<>> ELSE Head(ss) \o Concat(Tail(ss))

Drop(s, n) == SubSeq(s, n + 1, Len(s))

Take(s, n) == SubSeq(s, 1, n)

(***************************************************************************)
(* Tokens (word::Word) and the document (word::Ast).                       *)
(***************************************************************************)
NoScore == <<0, 1>>

Untracked(s) ==
    [kind |-> "Untracked", text |-> s, stemmed |-> <<>>, value |-> NoScore,
     colour |-> "none"]

Ignored(s) ==
    [kind |-> "Ignored", text |-> s, stemmed |-> <<>>, value |-> NoScore,
     colour |-> "none"]

Tracked(s, st, v, c) ==
    [kind |-> "Tracked", text |-> s, stemmed |-> st, value |-> v, colour |-> c]

set_count(w, v) == [w EXCEPT !.value = v]

set_stemmed(w, st) == [w EXCEPT !.stemmed = st]

\* Ast::new, with the scan state tokenize keeps beside it
NewScan(s) ==
    [ok |-> TRUE, chars |-> s, words |-> <<>>, begin_head |-> 0,
     begin_body |-> 0, end_body |-> 0, is_begin |-> TRUE, in_body |-> TRUE]

\* a marker is set once, at the index the token being scanned will get
mark_begin_head(st) ==
    IF st.begin_head = 0 THEN [st EXCEPT !.begin_head = Len(st.words) + 1] ELSE st

mark_begin_body(st) ==
    IF st.begin_body = 0 THEN [st EXCEPT !.begin_body = Len(st.words) + 1] ELSE st

mark_end_body(st) ==
    IF st.end_body = 0 THEN [st EXCEPT !.end_body = Len(st.words) + 1] ELSE st

(***************************************************************************)
(* The stemmer and the ignored words of the parser.                        *)
(***************************************************************************)
\* Stemmer::stem: the plural "s" of a word of three letters or more is cut
stem(w) ==
    IF Len(w) > 2 /\ w[Len(w)] = "s" THEN Take(w, Len(w) - 1) ELSE w

\* IGNORED_FR: the string of lines 46-47
IGNORED_FR ==
    << "l", "a", " ", "l", "e", " ", "l", "e", "s", " ", "p", "a", "s",
       " ", "n", "e", " ", "n", "o", "s", " ", "d", "e", "s", " ", "i",
       "l", "s", " ", "e", "l", "l", "e", "s", " ", "i", "l", " ", "e",
       "l", "l", "e", " ", "s", "e", " ", "o", "n", " ", "n", "o", "u",
       "s", " ", "v", "o", "u", "s", " ", "l", "e", "u", "r", " ", "l",
       "e", "u", "r", "s", " ", "d", "e", " ", "e", "t", " ", "u", "n",
       " ", "u", "n", "e", " ", "t", " ", "s", " ", "à", " ", "d", " ",
       "l", " ", "j", "e", " ", "t", "u" >>

\* IGNORED_EN: the string of line 48
IGNORED_EN ==
    << "i", "t", " ", "s", " ", "i", " ", "o", "f", " ", "t", "h", "e",
       " ", "a", " ", "y", "o", "u", " ", "w", "e", " ", "s", "h", "e",
       " ", "h", "e", " ", "t", "h", "e", "y", " ", "t", "h", "e", "m",
       " ", "i", "t", "s", " ", "t", "h", "e", "i", "r" >>

\* the pieces of list between two characters that are not letters, the
\* empty ones included: split(|c| !c.is_alphabetic())
RECURSIVE get_ignored_from_string(_)
get_ignored_from_string(list) ==
    LET letters == { k \in 0..Len(list) :
                       \A j \in 1..k : is_alphabetic(list[j]) }
        n == CHOOSE k \in letters : \A j \in letters : j <= k
    IN  IF n = Len(list) THEN <<list>>
        ELSE <<Take(list, n)>> \o get_ignored_from_string(Drop(list, n + 1))

get_ignored_from_lang(l) ==
    IF l = "french" THEN get_ignored_from_string(IGNORED_FR)
    ELSE IF l = "english" THEN get_ignored_from_string(IGNORED_EN)
    ELSE <<>>

\* Vec::contains
contains(v, x) == \E k \in 1..Len(v) : v[k] = x

(***************************************************************************)
(* The four sub-scanners.  Each takes the rest of the input and returns    *)
(* the scan state after it: ok (FALSE for Err), the new rest, the token.   *)
(***************************************************************************)
Push(st, rest, word) ==
    [st EXCEPT !.chars = rest, !.words = Append(st.words, word)]

Fail(st) ==
    [ok |-> FALSE, chars |-> st.chars, words |-> <<>>, begin_head |-> 0,
     begin_body |-> 0, end_body |-> 0, is_begin |-> st.is_begin,
     in_body |-> st.in_body]

\* index of the first ';' of c, 0 when there is none
RECURSIVE EscapeLen(_)
EscapeLen(c) ==
    IF c = <<>> THEN 0
    ELSE IF Head(c) = ";" THEN 1
    ELSE LET n == EscapeLen(Tail(c)) IN IF n = 0 THEN 0 ELSE n + 1

\* tokenize_escape taking the rest of the input when no ';' follows
tokenize_escape_to_end(st) ==
    LET n == EscapeLen(st.chars)
    IN  IF n = 0 THEN Push(st, <<>>, Untracked(st.chars))
        ELSE Push(st, Drop(st.chars, n), Untracked(Take(st.chars, n)))

tokenize_escape(st) ==
    LET n == EscapeLen(st.chars)
    IN  IF n = 0 THEN Fail(st)
        ELSE Push(st, Drop(st.chars, n), Untracked(Take(st.chars, n)))

\* take_while(c == '/' || c.is_alphabetic())
RECURSIVE TagLen(_)
TagLen(c) ==
    IF c = <<>> \/ ~(Head(c) = "/" \/ is_alphabetic(Head(c))) THEN 0
    ELSE 1 + TagLen(Tail(c))

\* the tag name compared as written, without to_lowercase
TagNameAsWritten(c) == Take(c, TagLen(c))

TagName(c) == lower(Take(c, TagLen(c)))

\* the loop of tokenize_html without brackets += 1 on an inner '<'
RECURSIVE HtmlScanFlat(_, _, _)
HtmlScanFlat(c, brackets, was_tag_found) ==
    IF c = <<>> THEN [n |-> 0, closed |-> FALSE, tag |-> <<>>]
    ELSE LET ch == Head(c)
             found == ~was_tag_found /\ (ch = "/" \/ is_alphabetic(ch))
             b2 == IF ch = ">" THEN brackets - 1 ELSE brackets
         IN  IF ch = ">" /\ b2 = 0
             THEN [n |-> 1, closed |-> TRUE, tag |-> <<>>]
             ELSE LET r == HtmlScanFlat(Tail(c), b2, was_tag_found \/ found)
                  IN  [n |-> r.n + 1, closed |-> r.closed,
                       tag |-> IF found THEN TagName(c) ELSE r.tag]

\* the loop of tokenize_html from the character after '<': the number of
\* characters consumed (0 when the input ends first) and the tag name found
RECURSIVE HtmlScan(_, _, _)
HtmlScan(c, brackets, was_tag_found) ==
    IF c = <<>> THEN [n |-> 0, closed |-> FALSE, tag |-> <<>>]
    ELSE LET ch == Head(c)
             found == ~was_tag_found /\ (ch = "/" \/ is_alphabetic(ch))
             b1 == IF ch = "<" THEN brackets + 1 ELSE brackets
             b2 == IF ch = ">" THEN b1 - 1 ELSE b1
         IN  IF ch = ">" /\ b2 = 0
             THEN [n |-> 1, closed |-> TRUE, tag |-> <<>>]
             ELSE LET r == HtmlScan(Tail(c), b2, was_tag_found \/ found)
                  IN  [n |-> r.n + 1, closed |-> r.closed,
                       tag |-> IF found THEN TagName(c) ELSE r.tag]

\* the match on the tag name with a "/body" arm that leaves in_body alone
TagEffectEndKeeps(st, tag) ==
    IF tag = <<"h", "e", "a", "d">>
    THEN [mark_begin_head(st) EXCEPT !.in_body = FALSE]
    ELSE IF tag = <<"b", "o", "d", "y">>
    THEN [mark_begin_body(st) EXCEPT !.in_body = TRUE]
    ELSE IF tag = <<"/", "b", "o", "d", "y">>
    THEN mark_end_body(st)
    ELSE IF tag = <<"h", "t", "m", "l">>
    THEN [st EXCEPT !.in_body = FALSE]
    ELSE st

\* the match on the tag name without its "html" arm
TagEffectNoHtml(st, tag) ==
    IF tag = <<"h", "e", "a", "d">>
    THEN [mark_begin_head(st) EXCEPT !.in_body = FALSE]
    ELSE IF tag = <<"b", "o", "d", "y">>
    THEN [mark_begin_body(st) EXCEPT !.in_body = TRUE]
    ELSE IF tag = <<"/", "b", "o", "d", "y">>
    THEN [mark_end_body(st) EXCEPT !.in_body = FALSE]
    ELSE st

\* the match on the tag name of tokenize_html
TagEffect(st, tag) ==
    IF tag = <<"h", "e", "a", "d">>
    THEN [mark_begin_head(st) EXCEPT !.in_body = FALSE]
    ELSE IF tag = <<"b", "o", "d", "y">>
    THEN [mark_begin_body(st) EXCEPT !.in_body = TRUE]
    ELSE IF tag = <<"/", "b", "o", "d", "y">>
    THEN [mark_end_body(st) EXCEPT !.in_body = FALSE]
    ELSE IF tag = <<"h", "t", "m", "l">>
    THEN [st EXCEPT !.in_body = FALSE]
    ELSE st

\* tokenize_html without its first res.push(chars[0])
tokenize_html_no_open(st) ==
    LET r == HtmlScan(Tail(st.chars), 1, FALSE)
    IN  IF ~r.closed THEN Fail(st)
        ELSE Push(TagEffect(st, r.tag), Drop(st.chars, r.n + 1),
                  Untracked(Take(Tail(st.chars), r.n)))

tokenize_html(st) ==
    LET r == HtmlScan(Tail(st.chars), 1, FALSE)
    IN  IF ~r.closed THEN Fail(st)
        ELSE Push(TagEffect(st, r.tag), Drop(st.chars, r.n + 1),
                  Untracked(Take(st.chars, r.n + 1)))

\* the run of tokenize_whitespace stopping at '<' and '&' whatever self.html
RECURSIVE WhitespaceLenMarkup(_)
WhitespaceLenMarkup(c) ==
    IF c = <<>> THEN 0
    ELSE IF Head(c) = "<" \/ Head(c) = "&" \/ is_alphabetic(Head(c))
    THEN 0
    ELSE 1 + WhitespaceLenMarkup(Tail(c))

\* length of the run tokenize_whitespace consumes
RECURSIVE WhitespaceLen(_)
WhitespaceLen(c) ==
    IF c = <<>> THEN 0
    ELSE IF ((Head(c) = "<" \/ Head(c) = "&") /\ html) \/ is_alphabetic(Head(c))
    THEN 0
    ELSE 1 + WhitespaceLen(Tail(c))

tokenize_whitespace(st) ==
    LET n == WhitespaceLen(st.chars)
        res == Take(st.chars, n)
        dot == \E k \in 1..n : res[k] = "."
    IN  [Push(st, Drop(st.chars, n), Untracked(res))
            EXCEPT !.is_begin = st.is_begin \/ dot]

is_proper_noun(s, isb) ==
    IF ignore_proper
    THEN IF ~isb THEN (s # <<>> /\ is_uppercase(s[1])) ELSE FALSE
    ELSE FALSE

\* length of the alphabetic run tokenize_word consumes
RECURSIVE WordLen(_)
WordLen(c) ==
    IF c = <<>> \/ ~is_alphabetic(Head(c)) THEN 0 ELSE 1 + WordLen(Tail(c))

\* tokenize_word stemming the word as written instead of lower_s
tokenize_word_stem_written(st) ==
    LET n == WordLen(st.chars)
        res == Take(st.chars, n)
        lower_s == lower(res)
        word == IF ~st.in_body THEN Untracked(res)
                ELSE IF contains(ignored, lower_s)
                        \/ is_proper_noun(res, st.is_begin)
                THEN Ignored(res)
                ELSE Tracked(res, stem(res), NoScore, "none")
    IN  [Push(st, Drop(st.chars, n), word) EXCEPT !.is_begin = FALSE]

tokenize_word(st) ==
    LET n == WordLen(st.chars)
        res == Take(st.chars, n)
        lower_s == lower(res)
        word == IF ~st.in_body THEN Untracked(res)
                ELSE IF contains(ignored, lower_s)
                        \/ is_proper_noun(res, st.is_begin)
                THEN Ignored(res)
                ELSE Tracked(res, stem(lower_s), NoScore, "none")
    IN  [Push(st, Drop(st.chars, n), word) EXCEPT !.is_begin = FALSE]

\* which sub-scanner the loop of tokenize hands the cursor to
Scanner(c) ==
    IF is_alphabetic(Head(c)) THEN "word"
    ELSE IF html /\ Head(c) = "<" THEN "html"
    ELSE IF html /\ Head(c) = "&" THEN "escape"
    ELSE "whitespace"

\* one turn of the loop of tokenize
Dispatch(st) ==
    CASE Scanner(st.chars) = "word" -> tokenize_word(st)
      [] Scanner(st.chars) = "html" ->
            tokenize_html([st EXCEPT !.is_begin = FALSE])
      [] Scanner(st.chars) = "escape" -> tokenize_escape(st)
      [] OTHER -> tokenize_whitespace(st)

RECURSIVE ScanLoop(_)
ScanLoop(st) ==
    IF ~st.ok \/ st.chars = <<>> THEN st ELSE ScanLoop(Dispatch(st))

\* the whole of tokenize
tokenize(s) == ScanLoop(NewScan(s))

(***************************************************************************)
(* tokenize, one turn of its loop at a time.                               *)
(***************************************************************************)
ScanState ==
    [ok |-> TRUE, chars |-> chars, words |-> words, begin_head |-> begin_head,
     begin_body |-> begin_body, end_body |-> end_body, is_begin |-> is_begin,
     in_body |-> in_body]

SetScan(st, to) ==
    /\ chars' = st.chars
    /\ words' = st.words
    /\ begin_head' = st.begin_head
    /\ begin_body' = st.begin_body
    /\ end_body' = st.end_body
    /\ is_begin' = st.is_begin
    /\ in_body' = st.in_body
    /\ pc' = IF st.ok THEN to ELSE "error"

ParserUnchanged ==
    UNCHANGED <<lang, message, html, ignore_proper, max_distance, fuzzy,
                ignored, more, text>>

DetectorUnchanged ==
    UNCHANGED <<h, pos, pos_to_i, idx, threshold, passes, detector, runs,
                pattern, result>>

\* the cursor is on a character for the scanner `which`
At(which) == pc = "tokenize" /\ chars # <<>> /\ Scanner(chars) = which

ScanStep ==
    /\ SetScan(Dispatch(ScanState), "tokenize")
    /\ ParserUnchanged
    /\ DetectorUnchanged

ScanWord ==
    /\ At("word")
    /\ ScanStep

ScanHtml ==
    /\ At("html")
    /\ ScanStep

ScanEscape ==
    /\ At("escape")
    /\ ScanStep

ScanWhitespace ==
    /\ At("whitespace")
    /\ ScanStep

\* the loop ends and tokenize returns Ok(ast)
ScanEnd ==
    /\ pc = "tokenize"
    /\ chars = <<>>
    /\ pc' = "ready"
    /\ UNCHANGED <<chars, words, begin_head, begin_body, end_body, is_begin,
                   in_body>>
    /\ ParserUnchanged
    /\ DetectorUnchanged

(***************************************************************************)
(* Inputs of the tokenizer specification: every string of at most MaxLen   *)
(* characters over TokChars, and every concatenation of at most MaxPieces  *)
(* of the pieces below.                                                    *)
(***************************************************************************)
MaxPieces == 3     \* longest input of the tokenizer specification, in pieces

TokChars == {"a", "B", "<", ">", "&", ";", ".", " "}

Pieces ==
    { <<"<", "h", "e", "a", "d", ">">>, <<"<", "B", "o", "d", "y", ">">>,
      <<"<", "/", "b", "o", "d", "y", ">">>, <<"<", "h", "t", "m", "l", ">">>,
      <<"<", "b", ">">>, <<"C", "h", "a", "t">>, <<"l", "e">>, <<".", " ">>,
      <<"<", "a", "<", "&", ">", ">">> }

StringsUpTo(S, n) == UNION { [1..k -> S] : k \in 0..n }

TokTexts ==
    StringsUpTo(TokChars, MaxLen)
        \cup { Concat(ps) : ps \in StringsUpTo(Pieces, MaxPieces) }

NoMap == [k \in {} |-> 0]

\* no Error: Parser::new has returned Ok
NoMessage == [lang |-> "", supported |-> <<>>]

\* Parser::new("french") and no call of with_ignored or with_more_ignored
French ==
    /\ lang = "french"
    /\ message = NoMessage
    /\ ignored = get_ignored_from_lang("french")
    /\ more = 0

IdleDetector ==
    /\ h = NoMap
    /\ pos = 1
    /\ pos_to_i = <<0>>
    /\ idx = 1
    /\ threshold = 0
    /\ passes = 0
    /\ detector = "none"
    /\ runs = {}
    /\ pattern = <<>>
    /\ result = <<>>

StartScan(s) ==
    /\ text = s
    /\ chars = s
    /\ words = <<>>
    /\ begin_head = 0
    /\ begin_body = 0
    /\ end_body = 0
    /\ is_begin = TRUE
    /\ in_body = TRUE

\* Parser::new("french"), then with_ignored("a") or not
InitTok ==
    /\ lang = "french"
    /\ message = NoMessage
    /\ ignored \in {get_ignored_from_lang("french"),
                    get_ignored_from_string(<<"a">>)}
    /\ more = 0
    /\ html \in BOOLEAN
    /\ ignore_proper \in BOOLEAN
    /\ max_distance = 50
    /\ fuzzy = 0
    /\ \E s \in TokTexts : StartScan(s)
    /\ pc = "tokenize"
    /\ IdleDetector

NextTok ==
    \/ ScanWord
    \/ ScanHtml
    \/ ScanEscape
    \/ ScanWhitespace
    \/ ScanEnd

SpecTok == InitTok /\ [][NextTok]_vars

\* the surface texts of the tokens, in order
Surface(ws) == Concat([k \in 1..Len(ws) |-> ws[k].text])

(***************************************************************************)
(* C1.  Losslessness: whenever tokenize succeeds, the surface texts of the *)
(* tokens of the document, concatenated in order, are the input string.    *)
(***************************************************************************)
C1_Lossless == pc = "ready" => Surface(words) = text

\* tokenize has returned a document of three tokens or more, with a word and
\* a tag or an entity among them
C1_Witness ==
    /\ pc = "ready"
    /\ html
    /\ Len(words) >= 3
    /\ \E k \in 1..Len(words) : words[k].kind # "Untracked"
    /\ \E k \in 1..Len(words) : Head(words[k].text) \in {"<", "&"}

(***************************************************************************)
(* The fuzzy key resolver.                                                 *)
(***************************************************************************)
Min2(a, b) == IF a <= b THEN a ELSE b

\* edit_distance: the Levenshtein distance
RECURSIVE edit_distance(_, _)
edit_distance(a, b) ==
    IF a = <<>> THEN Len(b)
    ELSE IF b = <<>> THEN Len(a)
    ELSE Min2(Min2(edit_distance(Tail(a), b) + 1, edit_distance(a, Tail(b)) + 1),
              edit_distance(Tail(a), Tail(b))
                  + (IF Head(a) = Head(b) THEN 0 ELSE 1))

Abs(x) == IF x < 0 THEN 0 - x ELSE x

\* the orders in which h.keys() may yield the keys of a map
KeyOrders(hm) ==
    LET n == Cardinality(DOMAIN hm)
    IN  { o \in [1..n -> DOMAIN hm] : \A a, b \in 1..n : o[a] = o[b] => a = b }

\* the filter closure of fuzzy_get: d_max is in quarters
KeyFilter(s, pat, d_max) ==
    IF Len(s) < 2 THEN FALSE
    ELSE IF 4 * Abs(Len(s) - Len(pat)) > d_max * Len(pat) THEN FALSE
    ELSE TRUE

\* the for loop of fuzzy_get over the keys still to come
RECURSIVE FuzzyLoop(_, _, _, _, _)
FuzzyLoop(order, pat, d_max, min_distance, key) ==
    IF order = <<>> THEN [min_distance |-> min_distance, key |-> key]
    ELSE IF ~KeyFilter(Head(order), pat, d_max)
    THEN FuzzyLoop(Tail(order), pat, d_max, min_distance, key)
    ELSE LET dist == edit_distance(Head(order), pat)
             m == IF dist < min_distance THEN dist ELSE min_distance
             k == IF dist < min_distance THEN Head(order) ELSE key
         IN  IF m = 1 THEN [min_distance |-> m, key |-> k]
             ELSE FuzzyLoop(Tail(order), pat, d_max, m, k)

\* (d_max * pattern.len() as f32) as i32
Bound(d_max, pat) == (d_max * Len(pat)) \div 4

\* fuzzy_get without the test h.contains_key(pattern)
fuzzy_get_no_exact(hm, pat, order) ==
    IF fuzzy # 0
    THEN IF Len(pat) < 2 THEN pat
         ELSE LET r == FuzzyLoop(order, pat, fuzzy, Cardinality(DOMAIN hm), pat)
              IN  IF r.min_distance < Bound(fuzzy, pat) THEN r.key ELSE pat
    ELSE pat

\* fuzzy_get, the keys of hm being yielded in the order `order`
fuzzy_get(hm, pat, order) ==
    IF fuzzy # 0
    THEN IF Len(pat) < 2 THEN pat
         ELSE IF pat \in DOMAIN hm THEN pat
         ELSE LET r == FuzzyLoop(order, pat, fuzzy, Cardinality(DOMAIN hm), pat)
              IN  IF r.min_distance < Bound(fuzzy, pat) THEN r.key ELSE pat
    ELSE pat

(***************************************************************************)
(* The resolver on its own: a map and a pattern are drawn, fuzzy_get runs. *)
(***************************************************************************)
Keys ==
    { <<"a">>, <<"c", "h">>, <<"c", "h", "a">>, <<"c", "h", "a", "t">>,
      <<"c", "h", "a", "u">>, <<"c", "h", "a", "u", "d">>,
      <<"c", "h", "a", "t", "s">>, <<"c", "a", "r", "i">>,
      <<"c", "a", "r", "i", "b", "o", "n">> }

\* 0.25, 0.5 and 1.0
Tolerances == {1, 2, 4}

MapsOver(ks) == [ks -> {[p |-> 2, sub |-> <<1>>]}]

InitFuzzy ==
    /\ French
    /\ html = FALSE
    /\ ignore_proper = FALSE
    /\ max_distance = 50
    /\ fuzzy \in {0} \cup Tolerances
    /\ StartScan(<<>>)
    /\ pc = "fuzzy_get"
    /\ pos = 1
    /\ pos_to_i = <<0>>
    /\ idx = 1
    /\ threshold = 0
    /\ passes = 0
    /\ detector = "none"
    /\ runs = {}
    /\ \E ks \in SUBSET Keys :
          /\ Cardinality(ks) <= MaxKeys
          /\ h \in MapsOver(ks)
    /\ pattern \in Keys
    /\ result = <<>>

FuzzyGet ==
    /\ pc = "fuzzy_get"
    /\ \E order \in KeyOrders(h) :
          result' = fuzzy_get(h, pattern, order)
    /\ pc' = "resolved"
    /\ UNCHANGED <<chars, words, begin_head, begin_body, end_body, is_begin,
                   in_body, h, pos, pos_to_i, idx, threshold, passes,
                   detector, runs, pattern>>
    /\ ParserUnchanged

NextFuzzy == FuzzyGet

SpecFuzzy == InitFuzzy /\ [][NextFuzzy]_vars

\* the known keys at distance d of the pattern
KnownAt(d) == { k \in DOMAIN h : edit_distance(k, pattern) = d }

(***************************************************************************)
(* C6.  With tolerance 0.5, when a known key is at edit distance 1 of the  *)
(* query and the query is not known, the resolver returns a known key      *)
(* at distance 1, however many keys are known.  Stated for queries of four *)
(* characters or more, as "chau" is, where 1 is below the bound however    *)
(* the bound is rounded.                                                   *)
(***************************************************************************)
C6_NeighbourReturned ==
    (/\ pc = "resolved"
     /\ fuzzy = 2
     /\ Len(pattern) >= 4
     /\ pattern \notin DOMAIN h
     /\ KnownAt(1) # {})
        => result \in KnownAt(1)

\* the known keys the filter of fuzzy_get lets through
Candidates == { k \in DOMAIN h : KeyFilter(k, pattern, fuzzy) }

\* the least distance of a candidate to the pattern
BestDistance ==
    CHOOSE d \in 0..(Len(pattern) + 7) :
        /\ \E k \in Candidates : edit_distance(k, pattern) = d
        /\ \A k \in Candidates : edit_distance(k, pattern) >= d

(***************************************************************************)
(* C7.  A query of two characters or more that is not known resolves to a  *)
(* best candidate when the distance d of that candidate satisfies          *)
(* d < tolerance * length(query), the product not being truncated, and to  *)
(* itself otherwise.  Stated for maps of more keys than d, where the       *)
(* initial value of the minimum is not what rejects the candidate.         *)
(***************************************************************************)
C7_AcceptanceBound ==
    (/\ pc = "resolved"
     /\ fuzzy # 0
     /\ Len(pattern) >= 2
     /\ pattern \notin DOMAIN h
     /\ Candidates # {}
     /\ Cardinality(DOMAIN h) > BestDistance)
        => IF 4 * BestDistance < fuzzy * Len(pattern)
           THEN result \in Candidates
                /\ edit_distance(result, pattern) = BestDistance
           ELSE result = pattern

AtLeast(x, th) == 10 * x[1] >= th * x[2]

\* x < (m / 2) * threshold
Below(x, m, th) == 20 * x[1] < m * th * x[2]

\* value_to_colour with 1.5 * threshold and 2.0 * threshold exchanged
value_to_colour_swapped(x, th) ==
    IF Below(x, 2, th) THEN "panic"
    ELSE IF Below(x, 4, th) THEN "green"
    ELSE IF Below(x, 3, th) THEN "orange"
    ELSE "red"

value_to_colour(x, th) ==
    IF Below(x, 2, th) THEN "panic"
    ELSE IF Below(x, 3, th) THEN "green"
    ELSE IF Below(x, 4, th) THEN "orange"
    ELSE "red"

\* the closure f handed to highlight: value_to_colour, or |_, _| "blue"
Colour(f, x, th) == IF f = "blue" THEN "blue" ELSE value_to_colour(x, th)

\* highlight without the test option.is_none()
highlight_again(ws, th, f) ==
    [k \in 1..Len(ws) |->
        IF ws[k].kind = "Tracked"
        THEN Tracked(ws[k].text, ws[k].stemmed, NoScore,
                     IF AtLeast(ws[k].value, th)
                     THEN Colour(f, ws[k].value, th)
                     ELSE ws[k].colour)
        ELSE ws[k]]

\* highlight with *v = 0.0 inside the test *v >= threshold
highlight_reset_coloured(ws, th, f) ==
    [k \in 1..Len(ws) |->
        IF ws[k].kind = "Tracked"
        THEN IF ws[k].colour = "none" /\ AtLeast(ws[k].value, th)
             THEN Tracked(ws[k].text, ws[k].stemmed, NoScore,
                          Colour(f, ws[k].value, th))
             ELSE ws[k]
        ELSE ws[k]]

\* highlight without the test *v >= threshold
highlight_unguarded(ws, th, f) ==
    [k \in 1..Len(ws) |->
        IF ws[k].kind = "Tracked"
        THEN Tracked(ws[k].text, ws[k].stemmed, NoScore,
                     IF ws[k].colour = "none"
                     THEN Colour(f, ws[k].value, th)
                     ELSE ws[k].colour)
        ELSE ws[k]]

highlight(ws, th, f) ==
    [k \in 1..Len(ws) |->
        IF ws[k].kind = "Tracked"
        THEN Tracked(ws[k].text, ws[k].stemmed, NoScore,
                     IF ws[k].colour = "none" /\ AtLeast(ws[k].value, th)
                     THEN Colour(f, ws[k].value, th)
                     ELSE ws[k].colour)
        ELSE ws[k]]

\* f panics on some token of ws: panic!("WTF")
Panics(ws) == \E k \in 1..Len(ws) : ws[k].colour = "panic"

(***************************************************************************)
(* detect_local.                                                           *)
(***************************************************************************)
NoEntry == [p |-> 0, sub |-> <<>>]

Remove(hm, k) == [x \in DOMAIN hm \ {k} |-> hm[x]]

Insert(hm, k, v) == [x \in DOMAIN hm \cup {k} |-> IF x = k THEN v ELSE hm[x]]

Range(f) == { f[x] : x \in DOMAIN f }

\* try_remove panics: pos_to_i[pos_limit] is out of bounds, or the token
\* there is Untracked
try_remove_panics(p, vec, p2i) ==
    IF p > max_distance + 1
    THEN LET pos_limit == p - max_distance
         IN  IF pos_limit >= Len(p2i) THEN TRUE
             ELSE vec[p2i[pos_limit + 1]].kind = "Untracked"
    ELSE FALSE

try_remove(p, hm, vec, p2i) ==
    IF p > max_distance + 1
    THEN LET pos_limit == p - max_distance
             i == p2i[pos_limit + 1]
         IN  IF vec[i].kind = "Ignored" THEN hm
             ELSE IF vec[i].stemmed \in DOMAIN hm
                     /\ hm[vec[i].stemmed].p = pos_limit + 1
             THEN Remove(hm, vec[i].stemmed)
             ELSE hm
    ELSE hm

\* the test of line 448 without the comparison with max_distance
InWindowAlways(p_pos, p) == p_pos # 0

\* the test of line 448 with <= for <
InWindowInclusive(p_pos, p) == p_pos # 0 /\ p - p_pos <= max_distance

\* the test of line 448: the entry found extends to the token at p
InWindow(p_pos, p) == p_pos # 0 /\ p - p_pos < max_distance

\* the loop of lines 451-453 setting the count of the new member only
SetCountsLast(vec, subvec) ==
    [vec EXCEPT ![subvec[Len(subvec)]] = set_count(@, <<Len(subvec), 1>>)]

\* the loop of lines 451-453 over 0..subvec.len() instead of the members
SetCountsPrefix(vec, subvec) ==
    [k \in 1..Len(vec) |->
        IF k <= Len(subvec) THEN set_count(vec[k], <<Len(subvec), 1>>)
        ELSE vec[k]]

\* the loop of lines 451-453: every member of the run gets the run's length
SetCounts(vec, subvec) ==
    [k \in 1..Len(vec) |->
        IF k \in Range(subvec) THEN set_count(vec[k], <<Len(subvec), 1>>)
        ELSE vec[k]]

\* one turn of the for loop of detect_local, on the token at i; the keys of
\* the map are yielded to fuzzy_get in the order `order`
LocalVisit(i, order) ==
    LET counted == words[i].kind # "Untracked"
        tracked == words[i].kind = "Tracked"
        p == IF counted THEN pos + 1 ELSE pos
        p2i == IF counted THEN Append(pos_to_i, i) ELSE pos_to_i
        s == IF tracked THEN fuzzy_get(h, words[i].stemmed, order) ELSE <<>>
        e == IF tracked /\ s \in DOMAIN h THEN h[s] ELSE NoEntry
        h1 == IF tracked THEN Remove(h, s) ELSE h
        panic == fuzzy # 0 /\ try_remove_panics(p, words, p2i)
        h2 == IF fuzzy # 0 /\ ~panic THEN try_remove(p, h1, words, p2i) ELSE h1
        vec1 == IF tracked THEN [words EXCEPT ![i] = set_stemmed(@, s)]
                ELSE words
        join == InWindow(e.p, p)
        subvec == IF join THEN Append(e.sub, i) ELSE <<i>>
    IN  [panic |-> panic,
         pos |-> p,
         pos_to_i |-> p2i,
         words |-> IF tracked /\ join THEN SetCounts(vec1, subvec) ELSE vec1,
         h |-> IF tracked THEN Insert(h2, s, [p |-> p, sub |-> subvec]) ELSE h2,
         runs |-> IF ~tracked THEN runs
                  ELSE IF join THEN (runs \ {e.sub}) \cup {subvec}
                  ELSE runs \cup {subvec}]

TokenizerUnchanged ==
    UNCHANGED <<chars, begin_head, begin_body, end_body, is_begin, in_body>>

\* detect_local is called: lines 397-400
LocalBegin ==
    /\ pc = "ready"
    /\ passes < MaxPasses
    /\ pc' = "local"
    /\ detector' = "local"
    /\ passes' = passes + 1
    /\ h' = NoMap
    /\ pos' = 1
    /\ pos_to_i' = <<0>>
    /\ idx' = 1
    /\ threshold' = 0
    /\ runs' = {}
    /\ UNCHANGED <<words, pattern, result>>
    /\ TokenizerUnchanged
    /\ ParserUnchanged

LocalStep(kind) ==
    /\ pc = "local"
    /\ idx <= Len(words)
    /\ words[idx].kind = kind
    /\ \E order \in KeyOrders(h) :
          LET r == LocalVisit(idx, order)
          IN  IF r.panic
              THEN /\ pc' = "panic"
                   /\ UNCHANGED <<words, h, pos, pos_to_i, idx, runs>>
              ELSE /\ pc' = "local"
                   /\ words' = r.words
                   /\ h' = r.h
                   /\ pos' = r.pos
                   /\ pos_to_i' = r.pos_to_i
                   /\ idx' = idx + 1
                   /\ runs' = r.runs
    /\ UNCHANGED <<threshold, passes, detector, pattern, result>>
    /\ TokenizerUnchanged
    /\ ParserUnchanged

LocalUntracked ==
    /\ pc = "local"
    /\ LocalStep("Untracked")

LocalIgnored ==
    /\ pc = "local"
    /\ LocalStep("Ignored")

LocalTracked ==
    /\ pc = "local"
    /\ LocalStep("Tracked")

\* the loop of detect_local has ended and highlight has not run yet
BeforeLocalHighlight == pc = "local" /\ idx > Len(words)

\* the thresholds detectors are called with: 0.5, 1.9, 2.0, 3.0
Thresholds == {5, 19, 20, 30}

\* line 461.  threshold is an argument of detect_local that nothing reads
\* before this line, so its value is drawn here
LocalHighlight ==
    /\ BeforeLocalHighlight
    /\ \E th \in Thresholds :
          LET ws == highlight(words, th, "three")
          IN  /\ threshold' = th
              /\ IF Panics(ws)
                 THEN pc' = "wtf" /\ UNCHANGED words
                 ELSE pc' = "ready" /\ words' = ws
    /\ UNCHANGED <<h, pos, pos_to_i, idx, passes, detector, runs, pattern,
                   result>>
    /\ TokenizerUnchanged
    /\ ParserUnchanged

(***************************************************************************)
(* detect_global.                                                          *)
(***************************************************************************)
TrackedAt(ws) == { k \in 1..Len(ws) : ws[k].kind = "Tracked" }

\* words_stats counting the Tracked words only
words_stats_tracked_only(ws) ==
    [h |-> [s \in { ws[k].stemmed : k \in TrackedAt(ws) } |->
                Cardinality({ k \in TrackedAt(ws) : ws[k].stemmed = s })],
     count |-> Cardinality(TrackedAt(ws))]

words_stats(ws) ==
    [h |-> [s \in { ws[k].stemmed : k \in TrackedAt(ws) } |->
                Cardinality({ k \in TrackedAt(ws) : ws[k].stemmed = s })],
     count |-> Cardinality({ k \in 1..Len(ws) : ws[k].kind # "Untracked" })]

\* detect_global up to its call of highlight: lines 508-524
GlobalScore ==
    /\ pc = "ready"
    /\ passes < MaxPasses
    /\ LET st == words_stats(words)
       IN  words' = [k \in 1..Len(words) |->
                        IF words[k].kind = "Tracked"
                        THEN set_count(words[k],
                                       <<st.h[words[k].stemmed], st.count>>)
                        ELSE words[k]]
    /\ pc' = "global"
    /\ detector' = "global"
    /\ passes' = passes + 1
    /\ h' = NoMap
    /\ pos' = 1
    /\ pos_to_i' = <<0>>
    /\ idx' = 1
    /\ threshold' = 0
    /\ runs' = {}
    /\ UNCHANGED <<pattern, result>>
    /\ TokenizerUnchanged
    /\ ParserUnchanged

\* line 525.  threshold is an argument of detect_global that nothing reads
\* before this line, so its value is drawn here
GlobalHighlight ==
    /\ pc = "global"
    /\ \E th \in Thresholds :
          /\ threshold' = th
          /\ words' = highlight(words, th, "blue")
    /\ pc' = "ready"
    /\ UNCHANGED <<h, pos, pos_to_i, idx, passes, detector, runs, pattern,
                   result>>
    /\ TokenizerUnchanged
    /\ ParserUnchanged

(***************************************************************************)
(* ast_to_html.  The string it returns is not part of the state; what it   *)
(* leaves behind is the document, which it takes as &mut Ast.              *)
(***************************************************************************)
\* the contents of html/scripts.js, as one opaque character
SCRIPTS == <<"SCRIPTS">>

\* Vec::insert(k - 1, x): x becomes the k-th element
InsertAt(v, k, x) == Take(v, k - 1) \o <<x>> \o Drop(v, k - 1)

\* the document after ast_to_html: line 642
ast_to_html(ws, standalone) ==
    IF standalone /\ begin_head # 0
    THEN InsertAt(ws, begin_head + 1, Untracked(SCRIPTS))
    ELSE ws

\* the number of tokens that hold the scripts
Rendered(ws) == Cardinality({ k \in 1..Len(ws) : ws[k].text = SCRIPTS })

\* ast_to_html is called on the document; the markers keep their values
AstToHtml ==
    /\ pc = "ready"
    /\ \E standalone \in BOOLEAN :
          /\ (standalone /\ begin_head # 0) => Rendered(words) < MaxRenders
          /\ words' = ast_to_html(words, standalone)
    /\ UNCHANGED <<pc, h, pos, pos_to_i, idx, threshold, passes, detector,
                   runs, pattern, result>>
    /\ TokenizerUnchanged
    /\ ParserUnchanged

(***************************************************************************)
(* The detectors on a freshly tokenized text: at most MaxWords words of    *)
(* DetWords with a space between two words, HTML off (or the document of   *)
(* HtmlTexts, HTML on), then at most                                       *)
(* MaxPasses detector passes in any order, with calls of ast_to_html       *)
(* before, between and after them.                                         *)
(***************************************************************************)
DetWords ==
    { <<"c", "h", "a", "t", "s">>, <<"c", "h", "a", "u">>, <<"m", "o", "t">>,
      <<"l", "e">> }

RECURSIVE Join(_)
Join(ws) ==
    IF ws = <<>> THEN <<>>
    ELSE IF Len(ws) = 1 THEN ws[1]
    ELSE ws[1] \o <<" ">> \o Join(Tail(ws))

DetTexts == { Join(ws) : ws \in StringsUpTo(DetWords, MaxWords) }

\* with_max_distance: 50 is the default
Distances == {0, 1, 2, 50}

\* an HTML document: a word of the head, then a body of three words
HtmlTexts ==
    { Concat(<< <<"<", "h", "e", "a", "d", ">">>, <<"m", "o", "t">>,
                <<"<", "b", "o", "d", "y", ">">>,
                <<"c", "h", "a", "u", " ", "m", "o", "t", " ">>,
                <<"c", "h", "a", "t", "s">>,
                <<"<", "/", "b", "o", "d", "y", ">">> >>) }

InitDet ==
    /\ French
    /\ html \in BOOLEAN
    /\ ignore_proper = FALSE
    /\ max_distance \in Distances
    /\ fuzzy \in {0, 2}
    /\ \E s \in (IF html THEN HtmlTexts ELSE DetTexts) : StartScan(s)
    /\ pc = "tokenize"
    /\ IdleDetector

\* tokenize, from its call to its return
Tokenize ==
    /\ pc = "tokenize"
    /\ SetScan(tokenize(text), "ready")
    /\ ParserUnchanged
    /\ DetectorUnchanged

NextDet ==
    \/ Tokenize
    \/ LocalBegin
    \/ LocalUntracked
    \/ LocalIgnored
    \/ LocalTracked
    \/ LocalHighlight
    \/ GlobalScore
    \/ GlobalHighlight
    \/ AstToHtml

SpecDet == InitDet /\ [][NextDet]_vars

\* the position of the token at i, counting the Ignored and Tracked tokens
Position(i) == Cardinality({ k \in 1..i : words[k].kind # "Untracked" })

(***************************************************************************)
(* C2 as claimed.  Window exclusion: two members of one repetition run of  *)
(* detect_local are never more than max_distance positions apart, also     *)
(* when other members of the run lie between them.                         *)
(***************************************************************************)
C2_WindowExclusion ==
    detector = "local" =>
        \A r \in runs : \A a, b \in Range(r) :
            Position(b) - Position(a) <= max_distance

(***************************************************************************)
(* C2 as amended.  Two consecutive members of a repetition run of          *)
(* detect_local are less than max_distance positions apart.                *)
(***************************************************************************)
C2_AdjacentInWindow ==
    detector = "local" =>
        \A r \in runs : \A k \in 1..(Len(r) - 1) :
            Position(r[k + 1]) - Position(r[k]) < max_distance

\* a run whose ends are more than max_distance apart has been built
C2_Witness ==
    /\ detector = "local"
    /\ \E r \in runs :
          /\ Len(r) >= 3
          /\ Position(r[Len(r)]) - Position(r[1]) > max_distance

(***************************************************************************)
(* C3.  At-most-once colouring: no step changes or clears the colour of a  *)
(* token that has one.  A Tracked token is named by its rank among the     *)
(* Tracked tokens, which ast_to_html keeps when it inserts the scripts.    *)
(***************************************************************************)
IsTracked(w) == w.kind = "Tracked"

TrackedOf(ws) == SelectSeq(ws, IsTracked)

C3_ColouredOnce ==
    [][\A k \in DOMAIN TrackedOf(words) :
          TrackedOf(words)[k].colour # "none" =>
              /\ k \in DOMAIN TrackedOf(words')
              /\ TrackedOf(words')[k].colour
                    = TrackedOf(words)[k].colour]_vars

\* after a local and a global pass, a token coloured by the first stands
\* beside one coloured by the second, both of the same key
C3_Witness ==
    /\ pc = "ready"
    /\ passes = 2
    /\ detector = "global"
    /\ \E j, k \in DOMAIN words :
          /\ words[j].colour = "green"
          /\ words[k].colour = "blue"
          /\ words[j].stemmed = words[k].stemmed

(***************************************************************************)
(* C4.  Local-run coherence: when the loop of detect_local has ended and   *)
(* highlight has not run, every member of a run of two tokens or more has  *)
(* the number of members of the run for score.                             *)
(***************************************************************************)
C4_RunCoherence ==
    BeforeLocalHighlight =>
        \A r \in runs :
            Len(r) >= 2 =>
                /\ Cardinality(Range(r)) = Len(r)
                /\ \A k \in Range(r) : words[k].value = <<Len(r), 1>>

\* the loop has ended with a run extended twice and a run never extended
C4_Witness ==
    /\ BeforeLocalHighlight
    /\ \E r \in runs : Len(r) = 3
    /\ \E r \in runs : Len(r) = 1

\* the number of Tracked tokens with the key of the token at k
Occurrences(k) ==
    Cardinality({ j \in DOMAIN words :
                    words[j].kind = "Tracked"
                    /\ words[j].stemmed = words[k].stemmed })

\* the number of Ignored and Tracked tokens
Counted == Cardinality({ j \in DOMAIN words : words[j].kind # "Untracked" })

(***************************************************************************)
(* C5.  Global normalization: before highlight runs in detect_global, the  *)
(* score of every Tracked token is the number of Tracked tokens of its key *)
(* divided by the number of Ignored and Tracked tokens; highlight then     *)
(* turns a token without colour "blue" exactly when that quotient is at    *)
(* least the threshold.                                                    *)
(***************************************************************************)
C5_GlobalNormalization ==
    [][pc = "global" =>
          \A k \in DOMAIN words :
              words[k].kind = "Tracked" =>
                  /\ words[k].value[2] > 0
                  /\ words[k].value[1] * Counted
                        = Occurrences(k) * words[k].value[2]
                  /\ words[k].colour = "none" =>
                        IF 10 * Occurrences(k) >= threshold' * Counted
                        THEN words'[k].colour = "blue"
                        ELSE words'[k].colour = "none"]_vars

\* detect_global has returned: of four counted words one is Ignored, a key
\* found twice is blue and a key found once has no colour
C5_Witness ==
    /\ pc = "ready"
    /\ detector = "global"
    /\ threshold = 5
    /\ Counted = 4
    /\ \E k \in DOMAIN words : words[k].kind = "Ignored"
    /\ \E k \in DOMAIN words : words[k].colour = "blue" /\ Occurrences(k) = 2
    /\ \E k \in DOMAIN words :
          /\ words[k].kind = "Tracked"
          /\ words[k].colour = "none"
          /\ Occurrences(k) = 1

\* the tier of a run of n tokens under the threshold th, in tenths
Tier(n, th) ==
    IF 10 * n < th THEN "none"
    ELSE IF 20 * n < 3 * th THEN "green"
    ELSE IF 10 * n < 2 * th THEN "orange"
    ELSE "red"

(***************************************************************************)
(* C9.  Local tier assignment: after detect_local on a freshly tokenized   *)
(* document every member of a run of n >= 2 tokens has no colour when      *)
(* n < threshold, is green when threshold <= n < 1.5 * threshold, orange   *)
(* when 1.5 * threshold <= n < 2 * threshold and red when                  *)
(* n >= 2 * threshold.                                                     *)
(***************************************************************************)
C9_LocalTiers ==
    [][(BeforeLocalHighlight /\ passes = 1 /\ pc' = "ready") =>
         \A r \in runs :
             Len(r) >= 2 =>
                 \A k \in Range(r) :
                     words'[k].colour = Tier(Len(r), threshold')]_vars

\* threshold 3.0 on a fresh document: a run of two tokens below the
\* threshold, whose members keep no colour
C9_Witness ==
    /\ pc = "ready"
    /\ detector = "local"
    /\ passes = 1
    /\ Rendered(words) = 0
    /\ threshold = 30
    /\ \E r \in runs :
          /\ Len(r) = 2
          /\ \A k \in Range(r) : words[k].colour = "none"

(***************************************************************************)
(* C10.  Local repetition value: when the loop of detect_local has ended   *)
(* and highlight has not run, the score of every Tracked token is the      *)
(* number of members of its run.                                           *)
(***************************************************************************)
C10_RepetitionValue ==
    BeforeLocalHighlight =>
        \A r \in runs : \A k \in Range(r) :
            words[k].value[1] = Len(r) * words[k].value[2]

(***************************************************************************)
(* Malformed markup.                                                       *)
(***************************************************************************)
\* how many of the first k characters of c are ch
RECURSIVE CountIn(_, _, _)
CountIn(c, k, ch) ==
    IF k = 0 THEN 0
    ELSE CountIn(c, k - 1, ch) + (IF c[k] = ch THEN 1 ELSE 0)

\* the tag opened by the '<' at the head of c is closed by the k-th character
ClosedAt(c, k) ==
    /\ c[k] = ">"
    /\ CountIn(c, k, "<") = CountIn(c, k, ">")

\* c opens a tag that the rest of the input never closes
UnclosedTag(c) ==
    /\ c # <<>>
    /\ Head(c) = "<"
    /\ \A k \in 1..Len(c) : ~ClosedAt(c, k)

\* c opens an entity and no ';' follows before the end of the input
UnclosedEntity(c) ==
    /\ c # <<>>
    /\ Head(c) = "&"
    /\ \A k \in 1..Len(c) : c[k] # ";"

\* C11: a turn of the loop of tokenize ends in an error exactly when HTML is
\* enabled and the cursor is on a '<' whose tag is not closed before the end
\* of the input or on an '&' that no ';' follows; the error leaves no
\* document; with HTML disabled no turn fails
C11_MalformedMarkup ==
    [][pc = "tokenize" =>
         /\ pc' = "error" <=>
                html /\ (UnclosedTag(chars) \/ UnclosedEntity(chars))
         /\ pc' = "error" =>
                words' = <<>> /\ begin_head' = 0 /\ begin_body' = 0
                              /\ end_body' = 0]_vars

\* an error after some tokens were pushed, and a text with '<' and '&' that
\* tokenizes without HTML
C11_Witness ==
    \/ /\ pc = "error"
       /\ chars # text
       /\ Head(chars) \in {"<", "&"}
    \/ /\ pc = "ready"
       /\ ~html
       /\ \E j, k \in 1..Len(text) : text[j] = "<" /\ text[k] = "&"

(***************************************************************************)
(* Structural markers.                                                     *)
(***************************************************************************)
IsNameChar(ch) == ch = "/" \/ is_alphabetic(ch)

\* the name of a tag token: its first run of letters and '/', lower-cased
NameOf(t) ==
    LET starts == { k \in 2..Len(t) : IsNameChar(t[k]) }
    IN  IF starts = {} THEN <<>>
        ELSE LET a == CHOOSE k \in starts : \A j \in starts : k <= j
                 b == CHOOSE k \in a..Len(t) :
                         /\ \A j \in a..k : IsNameChar(t[j])
                         /\ k = Len(t) \/ ~IsNameChar(t[k + 1])
             IN  [j \in 1..(b - a + 1) |-> to_lowercase(t[a + j - 1])]

\* the k-th token of ws is an HTML tag of that name
IsTag(ws, k, name) ==
    /\ html
    /\ Head(ws[k].text) = "<"
    /\ NameOf(ws[k].text) = name

\* index of the first tag of that name, 0 when there is none
FirstTag(ws, name) ==
    LET tags == { k \in 1..Len(ws) : IsTag(ws, k, name) }
    IN  IF tags = {} THEN 0
        ELSE CHOOSE k \in tags : \A j \in tags : k <= j

\* C12: after a successful tokenize each of the three markers is the index
\* of the first head, body and /body tag token (names compared lower-cased),
\* and None when there is no such tag or HTML is disabled
C12_StructuralMarkers ==
    pc = "ready" =>
        /\ begin_head = FirstTag(words, <<"h", "e", "a", "d">>)
        /\ begin_body = FirstTag(words, <<"b", "o", "d", "y">>)
        /\ end_body = FirstTag(words, <<"/", "b", "o", "d", "y">>)
        /\ ~html => begin_head = 0 /\ begin_body = 0 /\ end_body = 0

\* a document with two body tags whose marker is the first of them
C12_Witness ==
    /\ pc = "ready"
    /\ \E j, k \in 1..Len(words) :
          /\ j < k
          /\ IsTag(words, j, <<"b", "o", "d", "y">>)
          /\ IsTag(words, k, <<"b", "o", "d", "y">>)
          /\ begin_body = j

(***************************************************************************)
(* Words before the body.                                                  *)
(***************************************************************************)
\* the k-th token of ws was produced by tokenize_word
IsWord(ws, k) == is_alphabetic(Head(ws[k].text))

\* a head, html or /body tag comes before the k-th token
AfterClosingTag(ws, k) ==
    \E j \in 1..(k - 1) :
       \/ IsTag(ws, j, <<"h", "e", "a", "d">>)
       \/ IsTag(ws, j, <<"h", "t", "m", "l">>)
       \/ IsTag(ws, j, <<"/", "b", "o", "d", "y">>)

\* C13 as claimed: with HTML enabled, every word token before the body
\* marker of a successfully tokenized document is Untracked
C13_BeforeBodyUntracked ==
    (pc = "ready" /\ html /\ begin_body # 0) =>
        \A k \in 1..(begin_body - 1) :
            IsWord(words, k) => words[k].kind = "Untracked"

\* C13 amended: with HTML enabled, a word token before the body marker is
\* Untracked exactly when a head, html or /body tag precedes it; before any
\* such tag the text is in the implicit body and its words are Ignored or
\* Tracked
C13_BeforeBodyAfterHead ==
    (pc = "ready" /\ html /\ begin_body # 0) =>
        \A k \in 1..(begin_body - 1) :
            IsWord(words, k) =>
                (words[k].kind = "Untracked" <=> AfterClosingTag(words, k))

\* a word between an html tag and the body tag, and a word before any tag
C13_Witness ==
    /\ pc = "ready"
    /\ html
    /\ begin_body # 0
    /\ \E k \in 2..(begin_body - 1) :
          /\ IsWord(words, k)
          /\ words[k].kind = "Untracked"
          /\ IsTag(words, k - 1, <<"h", "t", "m", "l">>)

(***************************************************************************)
(* Construction: Parser::new(lang), then the with_ builders.  Before new   *)
(* returns there is no Parser; its fields then hold the values of          *)
(* NoParser.                                                               *)
(***************************************************************************)
\* Stemmer::list()
Stemmer_list == <<"english", "french">>

\* Stemmer::new(l) is Some
Stemmer_new(l) == \E k \in 1..Len(Stemmer_list) : Stemmer_list[k] = l

list_languages == Stemmer_list

\* the Error of Parser::new: the two arguments of its format!
UnsupportedLanguage(l) == [lang |-> l, supported |-> list_languages]

NoParser ==
    [html |-> FALSE, ignore_proper |-> FALSE, max_distance |-> 0, fuzzy |-> 0,
     ignored |-> <<>>]

\* Parser::new with html: false
new_html_off(l) ==
    IF ~Stemmer_new(l)
    THEN [ok |-> FALSE, message |-> UnsupportedLanguage(l), parser |-> NoParser]
    ELSE [ok |-> TRUE, message |-> NoMessage,
          parser |-> [html |-> FALSE, ignore_proper |-> FALSE,
                      max_distance |-> 50, fuzzy |-> 0,
                      ignored |-> get_ignored_from_lang(l)]]

new(l) ==
    IF ~Stemmer_new(l)
    THEN [ok |-> FALSE, message |-> UnsupportedLanguage(l), parser |-> NoParser]
    ELSE [ok |-> TRUE, message |-> NoMessage,
          parser |-> [html |-> TRUE, ignore_proper |-> FALSE,
                      max_distance |-> 50, fuzzy |-> 0,
                      ignored |-> get_ignored_from_lang(l)]]

Languages == {"english", "french", "incorrect language"}

InitNew ==
    /\ lang \in Languages
    /\ message = NoMessage
    /\ html = NoParser.html
    /\ ignore_proper = NoParser.ignore_proper
    /\ max_distance = NoParser.max_distance
    /\ fuzzy = NoParser.fuzzy
    /\ ignored = NoParser.ignored
    /\ more = 0
    /\ StartScan(<<>>)
    /\ pc = "new"
    /\ IdleDetector

BuilderUnchanged ==
    UNCHANGED <<lang, text, chars, words, begin_head, begin_body, end_body,
                is_begin, in_body, h, pos, pos_to_i, idx, threshold, passes,
                detector, runs, pattern, result>>

New ==
    /\ pc = "new"
    /\ LET r == new(lang)
       IN  /\ pc' = IF r.ok THEN "built" ELSE "unsupported"
           /\ message' = r.message
           /\ html' = r.parser.html
           /\ ignore_proper' = r.parser.ignore_proper
           /\ max_distance' = r.parser.max_distance
           /\ fuzzy' = r.parser.fuzzy
           /\ ignored' = r.parser.ignored
    /\ UNCHANGED more
    /\ BuilderUnchanged

WithHtml ==
    /\ pc = "built"
    /\ html' \in BOOLEAN
    /\ UNCHANGED <<pc, message, ignore_proper, max_distance, fuzzy, ignored,
                   more>>
    /\ BuilderUnchanged

WithIgnoreProper ==
    /\ pc = "built"
    /\ ignore_proper' \in BOOLEAN
    /\ UNCHANGED <<pc, message, html, max_distance, fuzzy, ignored, more>>
    /\ BuilderUnchanged

WithMaxDistance ==
    /\ pc = "built"
    /\ max_distance' \in Distances
    /\ UNCHANGED <<pc, message, html, ignore_proper, fuzzy, ignored, more>>
    /\ BuilderUnchanged

WithFuzzy ==
    /\ pc = "built"
    /\ fuzzy' \in {0} \cup Tolerances
    /\ UNCHANGED <<pc, message, html, ignore_proper, max_distance, ignored,
                   more>>
    /\ BuilderUnchanged

\* the list arguments of with_ignored and with_more_ignored
IgnoredLists ==
    { <<>>, <<"c", "h", "a", "t", "s">>, <<"m", "o", "t", ",", " ", "l", "e">> }

WithIgnored ==
    /\ pc = "built"
    /\ \E list \in IgnoredLists : ignored' = get_ignored_from_string(list)
    /\ UNCHANGED <<pc, message, html, ignore_proper, max_distance, fuzzy,
                   more>>
    /\ BuilderUnchanged

\* the fold of with_more_ignored pushes every piece of the split
WithMoreIgnored ==
    /\ pc = "built"
    /\ more < MaxMore
    /\ \E list \in IgnoredLists :
          ignored' = ignored \o get_ignored_from_string(list)
    /\ more' = more + 1
    /\ UNCHANGED <<pc, message, html, ignore_proper, max_distance, fuzzy>>
    /\ BuilderUnchanged

NextNew ==
    \/ New
    \/ WithHtml
    \/ WithIgnoreProper
    \/ WithMaxDistance
    \/ WithFuzzy
    \/ WithIgnored
    \/ WithMoreIgnored

SpecNew == InitNew /\ [][NextNew]_vars

\* C14: Parser::new returns a parser exactly for the languages of the
\* stemmer; the parser has HTML on, proper nouns counted, distance 50 and
\* no fuzzy matching; otherwise it returns no parser and an error that
\* lists the languages of the stemmer
C14_Construction ==
    [][pc = "new" =>
         /\ pc' = "built" <=> lang \in {"english", "french"}
         /\ pc' = "built" =>
                /\ html' = TRUE
                /\ ignore_proper' = FALSE
                /\ max_distance' = 50
                /\ fuzzy' = 0
                /\ message' = NoMessage
         /\ pc' # "built" =>
                /\ pc' = "unsupported"
                /\ message'.lang = lang
                /\ message'.supported = <<"english", "french">>
                /\ UNCHANGED <<html, ignore_proper, max_distance, fuzzy>>]_vars

\* new has refused a language and its error lists the supported ones
C14_Witness ==
    /\ pc = "unsupported"
    /\ lang = "incorrect language"
    /\ Len(message.supported) = 2

(***************************************************************************)
(* The in-body flag.                                                       *)
(***************************************************************************)
BodyTag == <<"b", "o", "d", "y">>

\* the first n tokens of ws leave the scan in the body, when the tags of
\* the names in closing are those that leave it: there is no body tag nor
\* closing tag among them, or the last of these is a body tag
InBodyAfter(ws, n, closing) ==
    LET tags == { k \in 1..n :
                    \E name \in closing \cup {BodyTag} : IsTag(ws, k, name) }
    IN  \/ tags = {}
        \/ IsTag(ws, CHOOSE k \in tags : \A j \in tags : j <= k, BodyTag)

\* the flag and the kind of every word follow the tags of names closing
InBodyFollows(closing) ==
    pc \in {"tokenize", "ready"} =>
        /\ in_body = InBodyAfter(words, Len(words), closing)
        /\ \A k \in 1..Len(words) :
              IsWord(words, k) =>
                  (words[k].kind = "Untracked"
                      <=> ~InBodyAfter(words, k - 1, closing))

\* C15 as claimed: the in-body flag is false only between a head or html
\* tag and the next body tag, true at every other scan position, and the
\* words scanned while it is true are Ignored or Tracked
C15_InBodyHeadHtml ==
    InBodyFollows({<<"h", "e", "a", "d">>, <<"h", "t", "m", "l">>})

\* C15 amended: the in-body flag starts true and is false exactly between
\* a head, html or /body tag and the next body tag; the words scanned while
\* it is false are Untracked, all others Ignored or Tracked
C15_InBodyHeadHtmlEnd ==
    InBodyFollows({<<"h", "e", "a", "d">>, <<"h", "t", "m", "l">>,
                   <<"/", "b", "o", "d", "y">>})

\* a word after the end of the body, Untracked
C15_Witness ==
    /\ pc = "ready"
    /\ ~in_body
    /\ Len(words) = 3
    /\ IsTag(words, 1, BodyTag)
    /\ IsTag(words, 2, <<"/", "b", "o", "d", "y">>)
    /\ IsWord(words, 3)
    /\ words[3].kind = "Untracked"

(***************************************************************************)
(* Proper nouns.                                                           *)
(***************************************************************************)
\* the k-th token of ws is a run of punctuation
IsPunctuation(ws, k) ==
    /\ ~IsWord(ws, k)
    /\ ~(html /\ Head(ws[k].text) \in {"<", "&"})

HasDot(t) == \E j \in 1..Len(t) : t[j] = "."

\* the k-th token of ws is the first word of the input, or the first word
\* after a run of punctuation that contains '.'
FirstOfSentence(ws, k) ==
    LET before == { j \in 1..(k - 1) : IsWord(ws, j) }
        last == IF before = {} THEN 0
                ELSE CHOOSE j \in before : \A i \in before : i <= j
    IN  \/ last = 0
        \/ \E j \in (last + 1)..(k - 1) :
              IsPunctuation(ws, j) /\ HasDot(ws[j].text)

\* C16: a word of the body that is not in the ignored set is Ignored only
\* if proper nouns are ignored, its first character is uppercase and it is
\* not the first word of a sentence, whatever tags, entities and
\* punctuation lie between the '.' and the word
C16_ProperNoun ==
    pc \in {"tokenize", "ready"} =>
        \A k \in 1..Len(words) :
            (/\ IsWord(words, k)
             /\ words[k].kind = "Ignored"
             /\ ~contains(ignored, lower(words[k].text)))
            => /\ ignore_proper
               /\ is_uppercase(Head(words[k].text))
               /\ ~FirstOfSentence(words, k)

(***************************************************************************)
(* Word classification.                                                    *)
(***************************************************************************)
\* the longest run of letters at the head of c
AlphabeticRun(c) ==
    LET n == CHOOSE k \in 0..Len(c) :
                /\ \A j \in 1..k : is_alphabetic(c[j])
                /\ k = Len(c) \/ ~is_alphabetic(c[k + 1])
    IN  [j \in 1..n |-> c[j]]

\* the token the claim gives the run s, scanned with these two flags
Classified(s, inb, isb) ==
    LET key == [j \in 1..Len(s) |-> to_lowercase(s[j])]
        proper == ignore_proper /\ ~isb /\ is_uppercase(s[1])
    IN  IF ~inb
        THEN [kind |-> "Untracked", text |-> s, stemmed |-> <<>>,
              value |-> <<0, 1>>, colour |-> "none"]
        ELSE IF (\E j \in 1..Len(ignored) : ignored[j] = key) \/ proper
        THEN [kind |-> "Ignored", text |-> s, stemmed |-> <<>>,
              value |-> <<0, 1>>, colour |-> "none"]
        ELSE [kind |-> "Tracked", text |-> s, stemmed |-> stem(key),
              value |-> <<0, 1>>, colour |-> "none"]

\* C17: the word scanner turns the maximal alphabetic run under the cursor
\* into exactly one token: Untracked outside the body, else Ignored when its
\* lower-cased form is in the ignored set or it is a proper noun, else
\* Tracked with the stem of the lower-cased word, score 0 and no colour
C17_WordClassification ==
    [][At("word") =>
         /\ words' = Append(words, Classified(AlphabeticRun(chars), in_body,
                                              is_begin))
         /\ chars = AlphabeticRun(chars) \o chars'
         /\ chars' = <<>> \/ ~is_alphabetic(Head(chars'))]_vars

\* the three kinds of word in one document: outside the body, a proper
\* noun, and a tracked word whose stem differs from its text
C17_Witness ==
    /\ pc = "ready"
    /\ \E k \in 1..Len(words) :
          /\ words[k].kind = "Tracked"
          /\ words[k].stemmed # words[k].text
    /\ \E k \in 1..Len(words) :
          /\ IsWord(words, k)
          /\ words[k].kind \in {"Untracked", "Ignored"}

(***************************************************************************)
(* What the detectors write.                                               *)
(***************************************************************************)
\* a step of a detector, from its call to its return, keeps the tokens in
\* place, with their kind and text, writes nothing on a token that is not
\* Tracked, keeps the three markers, and changes the stem key of the k-th
\* token only if Restem(k)
DetectorFrame(Restem(_)) ==
    (pc \in {"local", "global"}
        \/ (pc = "ready" /\ pc' \in {"local", "global"})) =>
        /\ Len(words') = Len(words)
        /\ begin_head' = begin_head
        /\ begin_body' = begin_body
        /\ end_body' = end_body
        /\ \A k \in 1..Len(words) :
              /\ words'[k].kind = words[k].kind
              /\ words'[k].text = words[k].text
              /\ words[k].kind # "Tracked" => words'[k] = words[k]
              /\ words'[k].stemmed # words[k].stemmed => Restem(k)

NoRestem(k) == FALSE

\* detect_local with fuzzy matching gives the token it visits a key of its
\* running map
FuzzyRestem(k) ==
    /\ fuzzy # 0
    /\ pc = "local"
    /\ k = idx
    /\ words[k].kind = "Tracked"
    /\ words'[k].stemmed \in DOMAIN h

\* C18 as claimed: with or without fuzzy matching the detectors keep the
\* tokens, their order, kind, text and stem key and the three markers, and
\* write only the score and the colour of Tracked tokens
C18_DetectorFrame == [][DetectorFrame(NoRestem)]_vars

\* C18 amended: the detectors keep the tokens, their order, kind and text
\* and the three markers; without fuzzy matching they keep every stem key;
\* with fuzzy matching detect_local replaces the stem key of a Tracked token
\* by the known key the resolver returned; nothing else than the score,
\* the colour and that stem key of Tracked tokens is written
C18_DetectorFrameFuzzy == [][DetectorFrame(FuzzyRestem)]_vars

\* a pass of detect_local with fuzzy matching has returned on a document
\* with markers and has moved a word to the key of a neighbour
C18_Witness ==
    /\ pc = "ready"
    /\ detector = "local"
    /\ begin_body # 0
    /\ \E k \in 1..Len(words) :
          /\ words[k].kind = "Tracked"
          /\ words[k].stemmed # stem(lower(words[k].text))

(***************************************************************************)
(* Scores after a pass.                                                    *)
(***************************************************************************)
\* C19: when detect_local or detect_global has returned, the score of every
\* Tracked token is 0, whether the pass coloured it or not
C19_ScoreConsumed ==
    pc = "ready" =>
        \A k \in 1..Len(words) :
            words[k].kind = "Tracked" => words[k].value[1] = 0

\* a second pass, detect_global, has returned and has left coloured and
\* uncoloured Tracked tokens
C19_Witness ==
    /\ pc = "ready"
    /\ passes = 2
    /\ detector = "global"
    /\ \E j, k \in 1..Len(words) :
          /\ words[j].kind = "Tracked"
          /\ words[j].colour = "none"
          /\ words[k].kind = "Tracked"
          /\ words[k].colour # "none"

\* C20: detect_local never aborts in the three-tier function: highlight
\* calls it only with a score that is at least the threshold
C20_TierNeverAborts == pc # "wtf"

\* detect_local has returned with a threshold that coloured some run and
\* left a Tracked token of score 0 without colour
C20_Witness ==
    /\ pc = "ready"
    /\ detector = "local"
    /\ passes = 1
    /\ \E j, k \in 1..Len(words) :
          /\ words[j].kind = "Tracked"
          /\ words[j].colour = "none"
          /\ words[k].colour \in {"green", "orange", "red"}

(***************************************************************************)
(* The run extension rule.                                                 *)
(***************************************************************************)
\* detect_local is about to visit the token at idx
Visiting == pc = "local" /\ idx <= Len(words)

\* C21: a turn of the loop of detect_local that does not abort advances the
\* position by one on an Ignored or Tracked token and not on an Untracked
\* one; a Tracked token at the new position p joins the run of its resolved
\* key exactly when the map has an entry of that key whose last position q
\* has p - q < max_distance, and otherwise starts a run of its own; either
\* way the entry of the key then holds p
C21_RunExtension ==
    [][(Visiting /\ pc' = "local") =>
         LET w == words[idx]
             key == words'[idx].stemmed
             p == pos'
             joins == key \in DOMAIN h /\ p - h[key].p < max_distance
         IN  /\ pos' = IF w.kind = "Untracked" THEN pos ELSE pos + 1
             /\ w.kind = "Tracked" =>
                    /\ key \in DOMAIN h'
                    /\ h'[key].p = p
                    /\ h'[key].sub = IF joins THEN Append(h[key].sub, idx)
                                      ELSE <<idx>>]_vars

\* a key with two runs: its second occurrence was too far from the first
\* and started a run that a third occurrence joined
C21_Witness ==
    /\ pc = "local"
    /\ \E r1, r2 \in runs :
          /\ r1 # r2
          /\ Len(r2) >= 2
          /\ words[r1[1]].stemmed = words[r2[1]].stemmed
    /\ \E k \in 1..Len(words) : words[k].kind = "Ignored"

(***************************************************************************)
(* Eviction under fuzzy matching.                                          *)
(***************************************************************************)
\* fuzzy_get is about to be consulted for the Tracked token at idx, whose
\* position will be pos + 1
Consulting == Visiting /\ words[idx].kind = "Tracked"

\* (b) every key of the map is in the window of the token consulted for
WindowOnly ==
    (Consulting /\ fuzzy # 0 /\ max_distance > 0) =>
        \A key \in DOMAIN h : (pos + 1) - h[key].p < max_distance

\* (a) a key that leaves the map in a turn of the loop could not have been
\* extended by the next token
EvictsStaleOnly ==
    (Visiting /\ pc' = "local" /\ fuzzy # 0 /\ max_distance > 0) =>
        \A key \in DOMAIN h \ DOMAIN h' :
            (pos' + 1) - h[key].p >= max_distance

\* C22: with fuzzy matching and a positive max_distance an entry leaves the
\* running map exactly when its last occurrence has left the window: no
\* entry that a later token could extend is evicted, and whenever fuzzy_get
\* is consulted every key of the map, that of the first counted token
\* included, is less than max_distance behind the token
C22_EvictionExact == [][EvictsStaleOnly]_vars /\ []WindowOnly

(***************************************************************************)
(* Exact matching: detect_local against a variant that evicts.             *)
(***************************************************************************)
\* the entries of hm that a token at position p can still extend
InWindowOf(hm, p) ==
    [key \in { x \in DOMAIN hm : p - hm[x].p < max_distance } |-> hm[key]]

\* one turn of the variant on the token at i: the entries whose last
\* occurrence has left the window are evicted first, so a key found in the
\* map is always extended
EvictingVisit(st, i) ==
    LET w == st.words[i]
        p == IF w.kind = "Untracked" THEN st.pos ELSE st.pos + 1
        hm == InWindowOf(st.h, p)
        key == w.stemmed
        joins == key \in DOMAIN hm
        subvec == IF joins THEN Append(hm[key].sub, i) ELSE <<i>>
    IN  IF w.kind # "Tracked"
        THEN [st EXCEPT !.pos = p, !.h = hm]
        ELSE [pos |-> p,
              h |-> [x \in DOMAIN hm \cup {key} |->
                        IF x = key THEN [p |-> p, sub |-> subvec] ELSE hm[x]],
              words |-> IF joins
                        THEN [k \in 1..Len(st.words) |->
                                IF \E j \in 1..Len(subvec) : subvec[j] = k
                                THEN [st.words[k] EXCEPT
                                        !.value = <<Len(subvec), 1>>]
                                ELSE st.words[k]]
                        ELSE st.words,
              runs |-> IF joins
                       THEN (st.runs \ {hm[key].sub}) \cup {subvec}
                       ELSE st.runs \cup {subvec}]

RECURSIVE EvictingFrom(_, _)
EvictingFrom(st, i) ==
    IF i > Len(st.words) THEN st
    ELSE EvictingFrom(EvictingVisit(st, i), i + 1)

\* the tokens as they were when the pass began: every score is 0
ScoresCleared(ws) ==
    [k \in 1..Len(ws) |-> [ws[k] EXCEPT !.value = <<0, 1>>]]

\* the loop of the variant over the whole document
Evicting ==
    EvictingFrom([pos |-> 1, h |-> [x \in {} |-> 0],
                  words |-> ScoresCleared(words), runs |-> {}], 1)

\* C23: without fuzzy matching, when the loop of detect_local ends the runs
\* and the scores are those of the variant that evicts every entry as soon
\* as its last occurrence leaves the window, and so are the colours for
\* every threshold
C23_EvictionNeedless ==
    (BeforeLocalHighlight /\ fuzzy = 0) =>
        /\ runs = Evicting.runs
        /\ words = Evicting.words
        /\ \A th \in Thresholds :
              highlight(words, th, "three")
                  = highlight(Evicting.words, th, "three")

\* the loop has ended with a stale entry in the map, after an occurrence
\* started a new run over a stale entry of its key
C23_Witness ==
    /\ BeforeLocalHighlight
    /\ fuzzy = 0
    /\ max_distance > 0
    /\ \E key \in DOMAIN h : pos - h[key].p >= max_distance
    /\ \E r1, r2 \in runs :
          /\ r1 # r2
          /\ words[r1[1]].stemmed = words[r2[1]].stemmed

(***************************************************************************)
(* The extent of an HTML tag.                                              *)
(***************************************************************************)
\* the first character of c that closes the tag opened at its head, 0 when
\* none does
FirstClose(c) ==
    LET closes == { k \in 1..Len(c) : ClosedAt(c, k) }
    IN  IF closes = {} THEN 0
        ELSE CHOOSE k \in closes : \A j \in closes : k <= j

\* C24: with HTML enabled, a turn of the loop on a '<' that succeeds pushes
\* one Untracked token, which runs from that '<' to the first later '>' where
\* as many '>' as '<' have been consumed; the letters, '&' and brackets in
\* between give no token of their own
C24_TagExtent ==
    [][(At("html") /\ pc' = "tokenize") =>
         LET k == FirstClose(chars)
         IN  /\ Len(words') = Len(words) + 1
             /\ \A j \in 1..Len(words) : words'[j] = words[j]
             /\ words'[Len(words')].kind = "Untracked"
             /\ words'[Len(words')].text = [j \in 1..k |-> chars[j]]
             /\ chars' = [j \in 1..(Len(chars) - k) |-> chars[k + j]]]_vars

\* a tag with an inner bracket and a letter or an '&' inside, then text
C24_Witness ==
    /\ html
    /\ pc = "ready"
    /\ Len(words) >= 2
    /\ LET t == words[1].text
       IN  /\ Head(t) = "<"
           /\ \E j \in 2..Len(t) : t[j] = "<"
           /\ \E j \in 2..Len(t) : t[j] = "&" \/ is_alphabetic(t[j])

(***************************************************************************)
(* Progress and termination of tokenize.  The loop of tokenize runs        *)
(* without interruption until it returns, hence the weak fairness.  The    *)
(* inputs are every string of at most MaxFairLen characters over TokChars, *)
(* with HTML on and off; ignore_proper changes the kind of a token only.   *)
(***************************************************************************)
MaxFairLen == 4    \* longest input of the fair tokenizer specification

\* the characters that choose the scanner and end its scan; capitals and
\* dots only change the kind of a word token
FairChars == TokChars \ {"B", "."}

InitTokFair ==
    /\ French
    /\ html \in BOOLEAN
    /\ ignore_proper = FALSE
    /\ max_distance = 50
    /\ fuzzy = 0
    /\ \E s \in StringsUpTo(FairChars, MaxFairLen) : StartScan(s)
    /\ pc = "tokenize"
    /\ IdleDetector

SpecTokFair == InitTokFair /\ [][NextTok]_vars /\ WF_vars(NextTok)

\* c is what is left of d after some of its first characters
IsSuffix(c, d) ==
    /\ Len(c) <= Len(d)
    /\ \A j \in 1..Len(c) : c[j] = d[Len(d) - Len(c) + j]

\* a turn of the loop consumes at least one character, moves the cursor
\* forwards only and pushes one token, which is not empty
Progress ==
    (pc = "tokenize" /\ pc' = "tokenize") =>
        /\ Len(chars') < Len(chars)
        /\ IsSuffix(chars', chars)
        /\ Len(words') = Len(words) + 1
        /\ words'[Len(words')].text # <<>>

\* no more tokens than characters consumed
TokensBounded ==
    /\ IsSuffix(chars, text)
    /\ Len(words) <= Len(text) - Len(chars)
    /\ \A k \in 1..Len(words) : words[k].text # <<>>

\* C25: tokenize terminates on every input, with a document or an error;
\* every turn of its loop consumes at least one character, so no token is
\* empty, the cursor never moves backwards and there are never more tokens
\* than input characters
C25_Termination ==
    /\ [][Progress]_vars
    /\ []TokensBounded
    /\ <>(pc \in {"ready", "error"})

\* tokenize has returned a document with as many tokens as characters
C25_Witness ==
    /\ pc = "ready"
    /\ Len(text) >= 3
    /\ Len(words) = Len(text)

====
